---------------------------- MODULE Spec2Model ----------------------------
(*
  A model of examples/03_simple_analysis.py: a straight-line script that
  loads a table with pandas and runs six analysis sections on it, followed
  by a summary banner, a lowest-production lookup and a per-year total.

  The table is a sequence of rows.  Each row carries the label the default
  RangeIndex of read_csv gives it (idx, 0-based), so that derived tables
  (filters, sorts) keep the identity of the rows they were built from.
  pandas operations are modelled by what pandas does on these values:
  comparisons with a missing value are false, reductions skip missing
  values, groupby drops rows whose key is missing and orders the groups by
  key, and sort_values with its default kind ("quicksort", which pandas
  documents as not stable) may return the rows of a tie in any order.

  pc is the statement the interpreter is at, err the uncaught exception
  that ended the script (if any) and ran the set of blocks whose body was
  entered; the other variables are the script's own names.  Printing is
  output only and is not part of the state.
*)
EXTENDS Integers, Sequences, FiniteSets

VARIABLES pc, columns, data, ran, err,
          stats, filtered_data, high_production,
          state_averages, state_averages_sorted,
          sorted_data, columns_to_show,
          state_counts, year_2012, max_prod, min_prod, annual_production

vars == <<pc, columns, data, ran, err,
          stats, filtered_data, high_production,
          state_averages, state_averages_sorted,
          sorted_data, columns_to_show,
          state_counts, year_2012, max_prod, min_prod, annual_production>>

-----------------------------------------------------------------------------
(* Bounds of the model and constants of the program *)

MaxRows == 2

YearToFilter == 2000

HighProdThreshold == 10000000

AfterYear == 2010

QuestionYear == 2012

\* The missing value of a numeric cell (NaN); real cell values are >= 0.
NaN == -1

\* The missing value of a text cell.
NoState == "NaN"

\* A missing result of a division (mean of nothing): numerator 0 over 0.
NaNFrac == <<0, 0>>

ColumnNames == {"state", "year", "totalprod"}

\* The state names of the input, in lexicographic order (the order groupby
\* gives its groups).
StateOrder == <<"CA", "TX">>

States == {StateOrder[i] : i \in 1..Len(StateOrder)}

Years == {YearToFilter, QuestionYear}

\* One value at the threshold of the high-production filter, one above it.
Totalprods == {HighProdThreshold, HighProdThreshold + 1}

-----------------------------------------------------------------------------
(* Sequences *)

Range(s) == {s[i] : i \in 1..Len(s)}

RECURSIVE SumTo(_, _)
\* s[1] + ... + s[n]
SumTo(s, n) == IF n = 0 THEN 0 ELSE s[n] + SumTo(s, n - 1)

SumSeq(s) == SumTo(s, Len(s))

Min(S) == CHOOSE x \in S : \A y \in S : x <= y

Max(S) == CHOOSE x \in S : \A y \in S : x >= y

\* The elements of a set of numbers in increasing order: the i-th is the
\* one with i - 1 smaller elements.
SetToSortedSeq(S) ==
    [i \in 1..Cardinality(S) |->
        CHOOSE x \in S : Cardinality({y \in S : y < x}) = i - 1]

\* The values of a sequence in increasing order, repetitions kept: the
\* i-th is the value x with fewer than i values below it and at least i
\* values not above it.
SortedVals(s) ==
    [i \in 1..Len(s) |->
        CHOOSE x \in Range(s) :
           /\ Cardinality({j \in 1..Len(s) : s[j] < x}) < i
           /\ Cardinality({j \in 1..Len(s) : s[j] <= x}) >= i]

-----------------------------------------------------------------------------
(* The table and its columns *)

HasColumn(c) == c \in columns

IsNA(v) == v = NaN

\* data[c] of a table t: the column's values in row order.
Column(t, c) == [i \in 1..Len(t) |-> t[i][c]]

\* The values a reduction sees: skipna drops the missing ones.
NonMissing(s) == SelectSeq(s, LAMBDA v : ~IsNA(v))

Cells(cols) ==
    [state     : IF "state" \in cols THEN States \cup {NoState} ELSE {NoState},
     year      : IF "year" \in cols THEN Years \cup {NaN} ELSE {NaN},
     totalprod : IF "totalprod" \in cols THEN Totalprods \cup {NaN} ELSE {NaN}]

MakeTable(f) ==
    [i \in 1..Len(f) |->
        [idx |-> i - 1, state |-> f[i].state, year |-> f[i].year,
         totalprod |-> f[i].totalprod]]

NoError == [kind |-> "none", what |-> "", at |-> ""]

Raise(kind, what, at) == [kind |-> kind, what |-> what, at |-> at]

NoStats == [f \in {} |-> NaNFrac]

-----------------------------------------------------------------------------
(* Statistics of a Series (Section 1) *)

Mean(s) ==
    LET v == NonMissing(s)
    IN  IF v = <<>> THEN NaNFrac ELSE <<SumSeq(v), Len(v)>>

\* The middle value, or the mean of the two middle values, as a fraction.
Median(s) ==
    LET v == SortedVals(NonMissing(s))
        n == Len(v)
    IN  IF n = 0 THEN NaNFrac
        ELSE IF n % 2 = 1 THEN <<v[(n + 1) \div 2], 1>>
        ELSE <<v[n \div 2] + v[n \div 2 + 1], 2>>

Occurrences(s, x) == Cardinality({i \in 1..Len(s) : s[i] = x})

\* Series.mode(): the most frequent values, in increasing order.
Mode(s) ==
    LET v == NonMissing(s)
        most == {x \in Range(v) :
                    \A y \in Range(v) : Occurrences(v, x) >= Occurrences(v, y)}
    IN  SetToSortedSeq(most)

\* Series.std() with ddof = 1: the sample variance, as a fraction (the
\* standard deviation is its square root); the deviations are taken from
\* the minimum, which leaves the variance unchanged.  NaN below two values.
Std(s) ==
    LET v == NonMissing(s)
        n == Len(v)
        d == [i \in 1..n |-> v[i] - Min(Range(v))]
        sq == [i \in 1..n |-> d[i] * d[i]]
    IN  IF n < 2 THEN NaNFrac
        ELSE <<n * SumSeq(sq) - SumSeq(d) * SumSeq(d), n * (n - 1)>>

SeriesMin(s) ==
    LET v == NonMissing(s) IN IF v = <<>> THEN NaN ELSE Min(Range(v))

SeriesMax(s) ==
    LET v == NonMissing(s) IN IF v = <<>> THEN NaN ELSE Max(Range(v))

-----------------------------------------------------------------------------
(* Initial state and load *)

Init ==
    /\ pc = "load"
    /\ columns = {}
    /\ data = <<>>
    /\ ran = {}
    /\ err = NoError
    /\ stats = NoStats
    /\ filtered_data = <<>>
    /\ high_production = <<>>
    /\ state_averages = <<>>
    /\ state_averages_sorted = <<>>
    /\ sorted_data = <<>>
    /\ columns_to_show = {}
    /\ state_counts = <<>>
    /\ year_2012 = <<>>
    /\ max_prod = <<>>
    /\ min_prod = <<>>
    /\ annual_production = <<>>

\* data = pd.read_csv("data/honey.csv")
Load ==
    /\ pc = "load"
    /\ \E cols \in SUBSET ColumnNames :
       \E n \in 0..MaxRows :
       \E f \in [1..n -> Cells(cols)] :
          /\ columns' = cols
          /\ data' = MakeTable(f)
    /\ pc' = "section1"
    /\ UNCHANGED <<ran, err, stats, filtered_data, high_production,
                   state_averages, state_averages_sorted, sorted_data,
                   columns_to_show, state_counts, year_2012, max_prod,
                   min_prod, annual_production>>

\* SECTION 1: statistics of totalprod.  The six values are computed and
\* printed one after the other; with no non-missing value the mean and the
\* median print as nan and mode().values[0] then indexes an empty array.
Section1 ==
    /\ pc = "section1"
    /\ err = NoError
    /\ IF HasColumn("totalprod")
       THEN LET total_production == Column(data, "totalprod")
            IN  /\ ran' = ran \cup {"s1"}
                /\ IF Mode(total_production) = <<>>
                   THEN /\ stats' = [mean |-> Mean(total_production),
                                     median |-> Median(total_production)]
                        /\ err' = Raise("IndexError", "values[0]", "section1")
                        /\ pc' = pc
                   ELSE /\ stats' = [mean |-> Mean(total_production),
                                     median |-> Median(total_production),
                                     mode |-> Mode(total_production)[1],
                                     std |-> Std(total_production),
                                     min |-> SeriesMin(total_production),
                                     max |-> SeriesMax(total_production)]
                        /\ err' = err
                        /\ pc' = "section2"
       ELSE /\ pc' = "section2"
            /\ UNCHANGED <<ran, err, stats>>
    /\ UNCHANGED <<columns, data, filtered_data, high_production,
                   state_averages, state_averages_sorted, sorted_data,
                   columns_to_show, state_counts, year_2012, max_prod,
                   min_prod, annual_production>>

-----------------------------------------------------------------------------
(* Boolean masks and row selection (Sections 2 and 6) *)

\* data["year"] == y: one boolean per row; a missing year equals nothing.
YearEqualsMask(t, y) ==
    [i \in 1..Len(t) |-> ~IsNA(t[i].year) /\ t[i].year = y]

\* A faulty HighProductionMask: the two conditions joined with | for &.
HighProductionMask_or(t) ==
    [i \in 1..Len(t) |->
        \/ ~IsNA(t[i].totalprod) /\ t[i].totalprod > HighProdThreshold
        \/ ~IsNA(t[i].year) /\ t[i].year > AfterYear]

\* (data["totalprod"] > 10_000_000) & (data["year"] > 2010): a comparison
\* with a missing value is False.
HighProductionMask(t) ==
    [i \in 1..Len(t) |->
        /\ ~IsNA(t[i].totalprod) /\ t[i].totalprod > HighProdThreshold
        /\ ~IsNA(t[i].year) /\ t[i].year > AfterYear]

\* data[mask]: the rows whose mask is True, in the order of the table.
SelectRows(t, mask) ==
    LET keep == SetToSortedSeq({i \in 1..Len(t) : mask[i]})
    IN  [k \in 1..Len(keep) |-> t[keep[k]]]

\* SECTION 2: the records of one year, then the records above 10M pounds
\* after 2010.  Each of the two blocks has its own guard.
Section2 ==
    /\ pc = "section2"
    /\ err = NoError
    /\ IF HasColumn("year")
       THEN filtered_data' = SelectRows(data, YearEqualsMask(data, YearToFilter))
       ELSE filtered_data' = filtered_data
    /\ IF HasColumn("totalprod") /\ HasColumn("year")
       THEN high_production' = SelectRows(data, HighProductionMask(data))
       ELSE high_production' = high_production
    /\ ran' = ran \cup (IF HasColumn("year") THEN {"s2a"} ELSE {})
                  \cup (IF HasColumn("totalprod") /\ HasColumn("year")
                        THEN {"s2b"} ELSE {})
    /\ pc' = "section3"
    /\ UNCHANGED <<columns, data, err, stats,
                   state_averages, state_averages_sorted, sorted_data,
                   columns_to_show, state_counts, year_2012, max_prod,
                   min_prod, annual_production>>

-----------------------------------------------------------------------------
(* Sorting (Sections 3, 4 and 5) *)

\* A sort key as a fraction: a value v is v/1, a missing value is 0/0.
Key(v) == IF IsNA(v) THEN NaNFrac ELSE <<v, 1>>

IsNaNFrac(q) == q[2] = 0

\* a comes strictly before b in descending order with missing values last.
BeforeDescending(a, b) ==
    /\ ~IsNaNFrac(a)
    /\ IsNaNFrac(b) \/ a[1] * b[2] > b[1] * a[2]

\* The index orders sort_values(ascending=False) can return for these keys:
\* kind is left at its default "quicksort", which is not a stable sort, so
\* the positions of equal keys come in any order; na_position is "last".
ArgsortDescending(keys) ==
    {f \in [1..Len(keys) -> 1..Len(keys)] :
        /\ \A i, j \in 1..Len(keys) : i # j => f[i] # f[j]
        /\ \A i, j \in 1..Len(keys) :
              i < j => ~BeforeDescending(keys[f[j]], keys[f[i]])}

Take(s, f) == [i \in 1..Len(s) |-> s[f[i]]]

-----------------------------------------------------------------------------
(* Grouping (Section 3 and the per-year total) *)

RowsOfState(t, k) == SelectRows(t, [i \in 1..Len(t) |-> t[i].state = k])

RowsOfYear(t, y) == SelectRows(t, [i \in 1..Len(t) |-> t[i].year = y])

\* The groups of groupby("state"): the distinct non-missing keys, sorted
\* (sort=True), rows with a missing key dropped (dropna=True).
StateGroups(t) ==
    SelectSeq(StateOrder, LAMBDA k : \E i \in 1..Len(t) : t[i].state = k)

YearGroups(t) ==
    SetToSortedSeq({t[i].year : i \in 1..Len(t)} \ {NaN})

\* data.groupby("state")["totalprod"].mean(): one entry per group; the mean
\* skips missing values and is NaN for a group that has none.
GroupMean(t) ==
    LET keys == StateGroups(t)
    IN  [k \in 1..Len(keys) |->
            [state |-> keys[k],
             avg |-> Mean(Column(RowsOfState(t, keys[k]), "totalprod"))]]

\* data.groupby("year")["totalprod"].sum(): the sum skips missing values
\* and is 0 for a group that has none (min_count = 0).
GroupSum(t) ==
    LET keys == YearGroups(t)
    IN  [k \in 1..Len(keys) |->
            [year |-> keys[k],
             total |-> SumSeq(NonMissing(Column(RowsOfYear(t, keys[k]),
                                                "totalprod")))]]

\* A faulty Section3: the block without its guard on the columns.
Section3_unguarded ==
    /\ pc = "section3"
    /\ err = NoError
    /\ ran' = ran \cup {"s3"}
    /\ IF HasColumn("state") /\ HasColumn("totalprod")
       THEN /\ state_averages' = GroupMean(data)
            /\ \E f \in ArgsortDescending(Column(state_averages', "avg")) :
                  state_averages_sorted' = Take(state_averages', f)
            /\ pc' = "section4"
            /\ err' = err
       ELSE /\ err' = Raise("KeyError", "state", "section3")
            /\ UNCHANGED <<state_averages, state_averages_sorted, pc>>
    /\ UNCHANGED <<columns, data, stats, filtered_data, high_production,
                   sorted_data, columns_to_show, state_counts, year_2012,
                   max_prod, min_prod, annual_production>>

\* SECTION 3: average production per state, highest first.  The printed
\* report (the first 10 entries) is output only and is not part of the state.
Section3 ==
    /\ pc = "section3"
    /\ err = NoError
    /\ IF HasColumn("state") /\ HasColumn("totalprod")
       THEN /\ state_averages' = GroupMean(data)
            /\ \E f \in ArgsortDescending(Column(state_averages', "avg")) :
                  state_averages_sorted' = Take(state_averages', f)
            /\ ran' = ran \cup {"s3"}
       ELSE UNCHANGED <<state_averages, state_averages_sorted, ran>>
    /\ pc' = "section4"
    /\ UNCHANGED <<columns, data, err, stats, filtered_data, high_production,
                   sorted_data, columns_to_show, state_counts, year_2012,
                   max_prod, min_prod, annual_production>>

\* A faulty Section4: the sort done in place (inplace=True).
Section4_inplace ==
    /\ pc = "section4"
    /\ err = NoError
    /\ IF HasColumn("totalprod")
       THEN /\ \E f \in ArgsortDescending([i \in 1..Len(data) |->
                                              Key(data[i].totalprod)]) :
                  /\ data' = Take(data, f)
                  /\ sorted_data' = Take(data, f)
            /\ columns_to_show' =
                  IF \A col \in {"state", "year", "totalprod"} : HasColumn(col)
                  THEN {"state", "year", "totalprod"}
                  ELSE columns
            /\ ran' = ran \cup {"s4"}
       ELSE UNCHANGED <<data, sorted_data, columns_to_show, ran>>
    /\ pc' = "section5"
    /\ UNCHANGED <<columns, err, stats, filtered_data, high_production,
                   state_averages, state_averages_sorted, state_counts,
                   year_2012, max_prod, min_prod, annual_production>>

\* SECTION 4: the records by descending production, shown with the three
\* named columns or, failing that, with the first three columns (all the
\* columns of a table that has at most three).
Section4 ==
    /\ pc = "section4"
    /\ err = NoError
    /\ IF HasColumn("totalprod")
       THEN /\ \E f \in ArgsortDescending([i \in 1..Len(data) |->
                                              Key(data[i].totalprod)]) :
                  sorted_data' = Take(data, f)
            /\ columns_to_show' =
                  IF \A col \in {"state", "year", "totalprod"} : HasColumn(col)
                  THEN {"state", "year", "totalprod"}
                  ELSE columns
            /\ ran' = ran \cup {"s4"}
       ELSE UNCHANGED <<sorted_data, columns_to_show, ran>>
    /\ pc' = "section5"
    /\ UNCHANGED <<columns, data, err, stats, filtered_data, high_production,
                   state_averages, state_averages_sorted, state_counts,
                   year_2012, max_prod, min_prod, annual_production>>

-----------------------------------------------------------------------------
(* Counting values (Section 5) *)

\* The distinct values of a sequence in the order of their first occurrence.
Distinct(s) ==
    LET first == SetToSortedSeq({i \in 1..Len(s) :
                                   \A j \in 1..(i - 1) : s[j] # s[i]})
    IN  [k \in 1..Len(first) |-> s[first[k]]]

\* The counts value_counts() sorts: one entry per distinct non-missing
\* value (dropna=True), in first-occurrence order.
Counts(s) ==
    LET keys == Distinct(SelectSeq(s, LAMBDA v : v # NoState))
    IN  [k \in 1..Len(keys) |->
            [state |-> keys[k], count |-> Occurrences(s, keys[k])]]

\* SECTION 5: number of records per state, most frequent first (value_counts
\* sorts the counts with sort_values(ascending=False)).
Section5 ==
    /\ pc = "section5"
    /\ err = NoError
    /\ IF HasColumn("state")
       THEN /\ \E counts \in {Counts(Column(data, "state"))} :
               \E f \in ArgsortDescending([i \in 1..Len(counts) |->
                                              Key(counts[i].count)]) :
                  state_counts' = Take(counts, f)
            /\ ran' = ran \cup {"s5"}
       ELSE UNCHANGED <<state_counts, ran>>
    /\ pc' = "section6"
    /\ UNCHANGED <<columns, data, err, stats, filtered_data, high_production,
                   state_averages, state_averages_sorted, sorted_data,
                   columns_to_show, year_2012, max_prod, min_prod,
                   annual_production>>

-----------------------------------------------------------------------------
(* Arg-extreme lookups (Section 6 and the lowest-production lookup) *)

\* A faulty IdxMax: the last row holding the largest value.
IdxMax_last(t) ==
    LET m == SeriesMax(Column(t, "totalprod"))
    IN  t[Max({i \in 1..Len(t) : t[i].totalprod = m})].idx

\* Series.idxmax(): the label of the first row holding the largest
\* non-missing value.  Used only where such a value exists.
IdxMax(t) ==
    LET m == SeriesMax(Column(t, "totalprod"))
    IN  t[Min({i \in 1..Len(t) : t[i].totalprod = m})].idx

\* Series.idxmin(): the label of the first row holding the smallest
\* non-missing value.
IdxMin(t) ==
    LET m == SeriesMin(Column(t, "totalprod"))
    IN  t[Min({i \in 1..Len(t) : t[i].totalprod = m})].idx

\* t.loc[label, col]: labels are those of the RangeIndex, hence unique.
Loc(t, label, col) == (CHOOSE r \in Range(t) : r.idx = label)[col]

\* What idxmax/idxmin followed by .loc does on a non-empty column with no
\* non-missing value.  pandas before 3.0 returns nan from idxmax/idxmin and
\* the .loc lookup of nan then raises KeyError; pandas 3.0 raises ValueError
\* from idxmax/idxmin.  The script pins no version.
AllMissingErrors(at) ==
    {Raise("KeyError", "nan", at), Raise("ValueError", "all-NA", at)}

\* A faulty Section6: without the guard len(year_2012) > 0; idxmax of an
\* empty column raises ValueError.
Section6_noguard ==
    /\ pc = "section6"
    /\ err = NoError
    /\ IF \A col \in {"state", "year", "totalprod"} : HasColumn(col)
       THEN     /\ year_2012' = SelectRows(data, YearEqualsMask(data, QuestionYear))
                /\ ran' = ran \cup {"s6"}
                /\ IF Len(year_2012') = 0
                   THEN /\ err' = Raise("ValueError", "empty", "section6")
                        /\ UNCHANGED <<pc, max_prod>>
                   ELSE IF NonMissing(Column(year_2012', "totalprod")) = <<>>
                   THEN /\ err' \in AllMissingErrors("section6")
                        /\ UNCHANGED <<pc, max_prod>>
                   ELSE /\ max_prod' =
                             <<[idx |-> IdxMax(year_2012'),
                                state |-> Loc(year_2012', IdxMax(year_2012'), "state"),
                                amount |-> Loc(year_2012', IdxMax(year_2012'), "totalprod")]>>
                        /\ pc' = "summary"
                        /\ err' = err
       ELSE /\ pc' = "summary"
            /\ UNCHANGED <<year_2012, ran, max_prod, err>>
    /\ UNCHANGED <<columns, data, stats, filtered_data, high_production,
                   state_averages, state_averages_sorted, sorted_data,
                   columns_to_show, state_counts, min_prod, annual_production>>

\* SECTION 6: the state with the highest production in 2012.
Section6 ==
    /\ pc = "section6"
    /\ err = NoError
    /\ IF \A col \in {"state", "year", "totalprod"} : HasColumn(col)
       THEN     /\ year_2012' = SelectRows(data, YearEqualsMask(data, QuestionYear))
                /\ ran' = ran \cup {"s6"}
                /\ IF Len(year_2012') > 0
                   THEN IF NonMissing(Column(year_2012', "totalprod")) = <<>>
                        THEN /\ err' \in AllMissingErrors("section6")
                             /\ pc' = pc
                             /\ max_prod' = max_prod
                        ELSE /\ max_prod' =
                                  <<[idx |-> IdxMax(year_2012'),
                                     state |-> Loc(year_2012', IdxMax(year_2012'), "state"),
                                     amount |-> Loc(year_2012', IdxMax(year_2012'), "totalprod")]>>
                             /\ pc' = "summary"
                             /\ err' = err
                   ELSE /\ pc' = "summary"
                        /\ UNCHANGED <<max_prod, err>>
       ELSE /\ pc' = "summary"
            /\ UNCHANGED <<year_2012, ran, max_prod, err>>
    /\ UNCHANGED <<columns, data, stats, filtered_data, high_production,
                   state_averages, state_averages_sorted, sorted_data,
                   columns_to_show, state_counts, min_prod, annual_production>>

\* The CONGRATULATIONS banner and the "Try this yourself" list.
Summary ==
    /\ pc = "summary"
    /\ err = NoError
    /\ pc' = "lowest"
    /\ UNCHANGED <<columns, data, ran, err, stats, filtered_data,
                   high_production, state_averages, state_averages_sorted,
                   sorted_data, columns_to_show, state_counts, year_2012,
                   max_prod, min_prod, annual_production>>

\* The state with the lowest production: no guard on the columns.  A missing
\* column raises KeyError from data["totalprod"] or from .loc[..., "state"];
\* idxmin of an empty column raises ValueError.  (A table whose totalprod
\* has no non-missing value has already stopped the script in Section 1.)
Lowest ==
    /\ pc = "lowest"
    /\ err = NoError
    /\ ran' = ran \cup {"lowest"}
    /\ IF ~HasColumn("totalprod")
       THEN /\ err' = Raise("KeyError", "totalprod", "lowest")
            /\ UNCHANGED <<pc, min_prod>>
       ELSE IF Len(data) = 0
       THEN /\ err' = Raise("ValueError", "empty", "lowest")
            /\ UNCHANGED <<pc, min_prod>>
       ELSE IF NonMissing(Column(data, "totalprod")) = <<>>
       THEN /\ err' \in AllMissingErrors("lowest")
            /\ UNCHANGED <<pc, min_prod>>
       ELSE IF ~HasColumn("state")
       THEN /\ err' = Raise("KeyError", "state", "lowest")
            /\ min_prod' = <<[idx |-> IdxMin(data)]>>
            /\ pc' = pc
       ELSE /\ min_prod' = <<[idx |-> IdxMin(data),
                              state |-> Loc(data, IdxMin(data), "state"),
                              amount |-> Loc(data, IdxMin(data), "totalprod")]>>
            /\ pc' = "annual"
            /\ err' = err
    /\ UNCHANGED <<columns, data, stats, filtered_data, high_production,
                   state_averages, state_averages_sorted, sorted_data,
                   columns_to_show, state_counts, year_2012, max_prod,
                   annual_production>>

\* Total production by year: no guard on the columns either.
Annual ==
    /\ pc = "annual"
    /\ err = NoError
    /\ ran' = ran \cup {"annual"}
    /\ IF ~HasColumn("year")
       THEN /\ err' = Raise("KeyError", "year", "annual")
            /\ UNCHANGED <<pc, annual_production>>
       ELSE IF ~HasColumn("totalprod")
       THEN /\ err' = Raise("KeyError", "totalprod", "annual")
            /\ UNCHANGED <<pc, annual_production>>
       ELSE /\ annual_production' = GroupSum(data)
            /\ pc' = "done"
            /\ err' = err
    /\ UNCHANGED <<columns, data, stats, filtered_data, high_production,
                   state_averages, state_averages_sorted, sorted_data,
                   columns_to_show, state_counts, year_2012, max_prod,
                   min_prod>>

Next ==
    \/ Load
    \/ Section1
    \/ Section2
    \/ Section3
    \/ Section4
    \/ Section5
    \/ Section6
    \/ Summary
    \/ Lowest
    \/ Annual

Spec == Init /\ [][Next]_vars

\* The interpreter executes the statements of the script one after the
\* other until the end of the file or an uncaught exception.
FairSpec == Spec /\ WF_vars(Next)

-----------------------------------------------------------------------------
(* Vocabulary of the properties *)

AllColumns == {"state", "year", "totalprod"} \subseteq columns

\* The position of the script: 0 before the load, 1..6 at the sections,
\* 7 at the summary banner, then the two unguarded lookups.
Rank(p) ==
    CASE p = "load" -> 0
      [] p = "section1" -> 1
      [] p = "section2" -> 2
      [] p = "section3" -> 3
      [] p = "section4" -> 4
      [] p = "section5" -> 5
      [] p = "section6" -> 6
      [] p = "summary" -> 7
      [] p = "lowest" -> 8
      [] p = "annual" -> 9
      [] p = "done" -> 10

\* Position of the row labelled l in table t (0 if there is none).
PosOf(t, l) ==
    IF \E k \in 1..Len(t) : t[k].idx = l
    THEN CHOOSE k \in 1..Len(t) : t[k].idx = l
    ELSE 0

\* s holds rows of t, each once, in the relative order they have in t.
KeepsOrderOf(s, t) ==
    /\ \A i \in 1..Len(s) : s[i] \in Range(t)
    /\ \A i, j \in 1..Len(s) : i < j => PosOf(t, s[i].idx) < PosOf(t, s[j].idx)

\* s holds exactly the rows of t, each once.
IsPermutationOf(s, t) ==
    /\ Len(s) = Len(t)
    /\ Range(s) = Range(t)
    /\ \A i, j \in 1..Len(s) : i # j => s[i] # s[j]

Present(v) == v # NaN

-----------------------------------------------------------------------------
(* C1: filters *)

\* C1: the rows of filtered_data (year == 2000) and of high_production
\* (totalprod > 10,000,000 and year > 2010) are rows of the table, every
\* one of them satisfies the predicate (both conditions, for the
\* conjunction), and they stand in the relative order they have in the table.
C1_FilterSubsetSatisfiesOrdered ==
    /\ "s2a" \in ran =>
          /\ KeepsOrderOf(filtered_data, data)
          /\ \A i \in 1..Len(filtered_data) : filtered_data[i].year = 2000
    /\ "s2b" \in ran =>
          /\ KeepsOrderOf(high_production, data)
          /\ \A i \in 1..Len(high_production) :
                /\ high_production[i].totalprod > 10000000
                /\ high_production[i].year > 2010

\* Both filters ran on a two-row table and each kept one row: the
\* conjunction dropped the first row, which satisfies the production
\* condition but not the year condition, and kept the second.
C1_Witness ==
    /\ "s2a" \in ran /\ "s2b" \in ran
    /\ Len(data) = 2
    /\ Len(filtered_data) = 1
    /\ Len(high_production) = 1
    /\ high_production[1] = data[2]
    /\ data[1].totalprod > 10000000

-----------------------------------------------------------------------------
(* C2: column checks *)

\* C2: every operation checks that the columns it reads exist; when one is
\* absent the operation fails with ColumnNotFoundError, never with a
\* lower-level lookup failure (KeyError on the column name).
C2_ColumnNotFoundError ==
    /\ err.kind = "KeyError" => err.what \notin ColumnNames
    /\ ("lowest" \in ran /\ ~({"totalprod", "state"} \subseteq columns)) =>
          err.kind = "ColumnNotFoundError"
    /\ ("annual" \in ran /\ ~({"year", "totalprod"} \subseteq columns)) =>
          err.kind = "ColumnNotFoundError"

-----------------------------------------------------------------------------
(* C3: the loaded table is never changed *)

\* C3: once loaded, the table (rows, their order, the columns) is left
\* unchanged by every step of the script.
C3_TableUnchanged ==
    [][pc # "load" => data' = data /\ columns' = columns]_vars

\* The whole script ran on a table whose sorted and filtered copies differ
\* from it.
C3_Witness ==
    /\ pc = "done"
    /\ sorted_data # data
    /\ Len(filtered_data) < Len(data)
    /\ state_counts # <<>>
    /\ annual_production # <<>>

-----------------------------------------------------------------------------
(* C4: aggregates over nothing *)

\* C4: statistics or an arg-extreme lookup over a totalprod column with no
\* non-missing value (or over no rows) fail with EmptyColumnError, and no
\* NaN statistic is produced first.
C4_EmptyColumnError ==
    /\ ("s1" \in ran /\ NonMissing(Column(data, "totalprod")) = <<>>) =>
          /\ err.kind = "EmptyColumnError"
          /\ DOMAIN stats = {}
    /\ ("lowest" \in ran /\ "totalprod" \in columns
          /\ NonMissing(Column(data, "totalprod")) = <<>>) =>
          err.kind = "EmptyColumnError"

-----------------------------------------------------------------------------
(* C5: no row of 2012 *)

\* C5: when the table has the three columns and no row of year 2012,
\* Section 6 raises nothing and leaves the answer empty ("no data"): an
\* error raised in Section 6 implies a row of 2012, and once Section 6 ran
\* on an empty selection the script is past it with no answer and no error.
C5_NoRowsNoError ==
    /\ err.at = "section6" => \E i \in 1..Len(data) : data[i].year = 2012
    /\ ("s6" \in ran /\ ~\E i \in 1..Len(data) : data[i].year = 2012) =>
          /\ year_2012 = <<>>
          /\ max_prod = <<>>
          /\ Rank(pc) > 6
          /\ err.at # "section6"

\* Section 6 ran on a non-empty table none of whose rows is of 2012, and
\* control is at the summary banner.
C5_Witness ==
    /\ pc = "summary"
    /\ "s6" \in ran
    /\ Len(data) = 2
    /\ year_2012 = <<>>
    /\ max_prod = <<>>

-----------------------------------------------------------------------------
(* C6: arg-extreme lookups *)

\* The answer a is the row at position k of t, read whole from that row.
AnswerIsRow(a, t, k) ==
    /\ a.idx = t[k].idx
    /\ a.state = t[k].state
    /\ a.amount = t[k].totalprod

\* C6: the row found by idxmax (over the rows of 2012) and by idxmin (over
\* the table) has a non-missing totalprod that is >= (max) or <= (min)
\* every non-missing totalprod of the table searched, it is the first row
\* of that table with this value, and state and amount come from that row.
C6_ArgExtremeFirst ==
    /\ max_prod # <<>> =>
          \E k \in 1..Len(year_2012) :
             /\ AnswerIsRow(max_prod[1], year_2012, k)
             /\ Present(year_2012[k].totalprod)
             /\ \A j \in 1..Len(year_2012) :
                   Present(year_2012[j].totalprod) =>
                      year_2012[k].totalprod >= year_2012[j].totalprod
             /\ \A j \in 1..(k - 1) :
                   year_2012[j].totalprod # year_2012[k].totalprod
    /\ (min_prod # <<>> /\ err = NoError) =>
          \E k \in 1..Len(data) :
             /\ AnswerIsRow(min_prod[1], data, k)
             /\ Present(data[k].totalprod)
             /\ \A j \in 1..Len(data) :
                   Present(data[j].totalprod) =>
                      data[k].totalprod <= data[j].totalprod
             /\ \A j \in 1..(k - 1) : data[j].totalprod # data[k].totalprod

\* Both lookups answered on a table where two rows of 2012 tie for the
\* extreme value.
C6_Witness ==
    /\ max_prod # <<>>
    /\ min_prod # <<>>
    /\ err = NoError
    /\ Len(year_2012) = 2
    /\ Present(year_2012[1].totalprod)
    /\ year_2012[1].totalprod = year_2012[2].totalprod
    /\ year_2012[1].state # year_2012[2].state

-----------------------------------------------------------------------------
(* C7: the per-year totals *)

\* C7: the per-year sums of annual_production add up to the sum of all
\* non-missing totalprod values of the table, rows with a missing year
\* included.
C7_TotalConserved ==
    pc = "done" =>
       SumSeq(Column(annual_production, "total")) =
          SumSeq(NonMissing(Column(data, "totalprod")))

-----------------------------------------------------------------------------
(* C8: sorting *)

\* In s, rows with a missing key come last and the others in descending
\* order of the key.
DescendingMissingLast(keys) ==
    \A i, j \in 1..Len(keys) :
       i < j => /\ IsNaNFrac(keys[i]) => IsNaNFrac(keys[j])
                /\ (~IsNaNFrac(keys[i]) /\ ~IsNaNFrac(keys[j])) =>
                      keys[i][1] * keys[j][2] >= keys[j][1] * keys[i][2]

\* C8: the descending sort of the records and of the per-state averages is
\* a permutation of its input, in descending order with missing values
\* last, and rows with equal values keep their original relative order.
C8_SortStable ==
    /\ "s4" \in ran =>
          /\ IsPermutationOf(sorted_data, data)
          /\ DescendingMissingLast([i \in 1..Len(sorted_data) |->
                                       Key(sorted_data[i].totalprod)])
          /\ \A i, j \in 1..Len(sorted_data) :
                (i < j /\ sorted_data[i].totalprod = sorted_data[j].totalprod)
                   => PosOf(data, sorted_data[i].idx)
                         < PosOf(data, sorted_data[j].idx)
    /\ "s3" \in ran =>
          /\ IsPermutationOf(state_averages_sorted, state_averages)
          /\ DescendingMissingLast(Column(state_averages_sorted, "avg"))
          /\ \A i, j \in 1..Len(state_averages_sorted) :
                (/\ i < j
                 /\ state_averages_sorted[i].avg[1] * state_averages_sorted[j].avg[2]
                       = state_averages_sorted[j].avg[1] * state_averages_sorted[i].avg[2]
                 /\ IsNaNFrac(state_averages_sorted[i].avg)
                       = IsNaNFrac(state_averages_sorted[j].avg))
                   => \E a, b \in 1..Len(state_averages) :
                         /\ a < b
                         /\ state_averages[a] = state_averages_sorted[i]
                         /\ state_averages[b] = state_averages_sorted[j]

-----------------------------------------------------------------------------
(* C9: value counts *)

\* First position of value v in the state column of the table.
FirstSeen(v) == Min({i \in 1..Len(data) : data[i].state = v})

\* C9: state_counts has one entry per distinct non-missing state with its
\* number of occurrences, the counts add up to the number of non-missing
\* states, the entries come by descending count, and entries with equal
\* counts by first occurrence in the table.
C9_ValueCountsOrder ==
    "s5" \in ran =>
       /\ {state_counts[i].state : i \in 1..Len(state_counts)}
             = {data[i].state : i \in 1..Len(data)} \ {NoState}
       /\ \A i \in 1..Len(state_counts) :
             state_counts[i].count =
                Cardinality({k \in 1..Len(data) :
                                data[k].state = state_counts[i].state})
       /\ SumSeq(Column(state_counts, "count")) =
             Cardinality({k \in 1..Len(data) : data[k].state # NoState})
       /\ \A i, j \in 1..Len(state_counts) :
             i < j =>
                /\ state_counts[i].count >= state_counts[j].count
                /\ state_counts[i].count = state_counts[j].count =>
                      FirstSeen(state_counts[i].state)
                         < FirstSeen(state_counts[j].state)

-----------------------------------------------------------------------------
(* C10: control flow up to the summary banner *)

\* The block b of the script has run, or was skipped, or has failed.
Decided(b) ==
    CASE b = "s1" -> Rank(pc) > 1 \/ err.at = "section1"
      [] b \in {"s2a", "s2b"} -> Rank(pc) > 2
      [] b = "s3" -> Rank(pc) > 3
      [] b = "s4" -> Rank(pc) > 4
      [] b = "s5" -> Rank(pc) > 5
      [] b = "s6" -> Rank(pc) > 6 \/ err.at = "section6"

\* The columns the guard of block b names.
Needs(b) ==
    CASE b = "s1" -> {"totalprod"}
      [] b = "s2a" -> {"year"}
      [] b = "s2b" -> {"totalprod", "year"}
      [] b = "s3" -> {"state", "totalprod"}
      [] b = "s4" -> {"totalprod"}
      [] b = "s5" -> {"state"}
      [] b = "s6" -> {"state", "year", "totalprod"}

Blocks == {"s1", "s2a", "s2b", "s3", "s4", "s5", "s6"}

\* Every column the table has holds at least one non-missing value.
EveryColumnHasAValue ==
    /\ "state" \in columns => \E i \in 1..Len(data) : data[i].state # NoState
    /\ "year" \in columns => \E i \in 1..Len(data) : Present(data[i].year)
    /\ "totalprod" \in columns =>
          \E i \in 1..Len(data) : Present(data[i].totalprod)

\* With the three columns and a row of 2012, some row of 2012 has a
\* non-missing totalprod.
A2012RowHasAValue ==
    (AllColumns /\ \E i \in 1..Len(data) : data[i].year = 2012) =>
       \E i \in 1..Len(data) :
          data[i].year = 2012 /\ Present(data[i].totalprod)

\* The sections run in the order 1 to 6 and a block runs exactly when the
\* columns of its guard are present; a skipped block raises nothing.
SectionsInOrder ==
    /\ \A b \in Blocks :
          /\ Decided(b) => (b \in ran <=> Needs(b) \subseteq columns)
          /\ b \in ran => Decided(b)
    /\ err.at \in {"section2", "section3", "section4", "section5"} => FALSE
    /\ err.at = "section1" => "s1" \in ran
    /\ err.at = "section6" => "s6" \in ran

=============================================================================
